---- MODULE Spec2Model ----
(***************************************************************************)
(* Model of the Game component of lifeee-rs (src/components/game.rs): the  *)
(* Generation Controller of a Conway's Game of Life simulation.  The state *)
(* is the fields of struct Game, the settings context read on each update, *)
(* and the messages queued on the component's link.  There is one action   *)
(* per way a Msg reaches Game::update.                                     *)
(*                                                                         *)
(* Option<T> values are sequences: None is <<>>, Some(x) is <<x>>.         *)
(* A Coordinate is a pair <<x, y>>; a CellSet is a set of Coordinates.     *)
(***************************************************************************)
EXTENDS Integers, Sequences, FiniteSets

VARIABLES
    cells,          \* Game.cells: the current CellSet
    previous_gens,  \* Game.previous_gens: Vec<CellSet>, most recent first
    tick,           \* Game.tick: the generation counter (u32)
    interval,       \* Game.interval: Option<Interval>, Some(period in ms)
    speed,          \* Game.speed: u8
    adjust_offset,  \* Game.adjust_offset: Option<(usize, usize)>
    offset,         \* Game.offset
    zoom,           \* Game.zoom
    width,          \* Game.width
    height,         \* Game.height
    num_previous,   \* Settings.num_previous, read from the context by update
    pending,        \* messages sent with link.send_message inside update,
                    \* not yet handled
    timers,         \* periods of the browser timers that are set and not
                    \* cleared (gloo's Interval sets one when it is made
                    \* and clears it when it is dropped)
    rendered        \* what the last call of Game::view handed out

vars == <<cells, previous_gens, tick, interval, speed, adjust_offset,
          offset, zoom, width, height, num_previous, pending, timers,
          rendered>>

(***************************************************************************)
(* Bounds of the model.                                                    *)
(***************************************************************************)
MaxTick == 5

MaxNumPrevious == 3

GridWidth == 3

GridHeight == 2

MaxShift == 1

(***************************************************************************)
(* Program constants.                                                      *)
(***************************************************************************)
InitialSpeed == 5

InitialWidth == 300

InitialHeight == 200

InitialZoom == 1

MinSpeed == 1

MaxSpeed == 10

None == <<>>

Some(x) == <<x>>

Speeds == MinSpeed..MaxSpeed

(* Values the view-side inputs are drawn from. *)
Zooms == {1, 2}

Offsets == {<<0, 0>>, <<10, -10>>}

WindowSizes == {<<300, 200>>, <<800, 600>>}

(***************************************************************************)
(* crate::life: CellSet, make_cell_alive and tick.                         *)
(***************************************************************************)
CellSetNew == {}

make_cell_alive(set, cell) == set \cup {cell}

Neighbours(c) ==
    {<<c[1] + dx, c[2] + dy>> : dx \in {-1, 0, 1}, dy \in {-1, 0, 1}} \ {c}

LiveNeighbours(set, c) == Cardinality(Neighbours(c) \cap set)

Candidates(set) == set \cup UNION {Neighbours(c) : c \in set}

(* Variants of the transition engine with a plausible slip. *)
life_tick_survivors_only(set) ==
    {c \in set : LiveNeighbours(set, c) \in {2, 3}}

life_tick_clipped(set) ==
    {c \in Candidates(set) :
        /\ c[1] >= 0
        /\ c[2] >= 0
        /\ IF c \in set
           THEN LiveNeighbours(set, c) \in {2, 3}
           ELSE LiveNeighbours(set, c) = 3}

life_tick(set) ==
    {c \in Candidates(set) :
        IF c \in set
        THEN LiveNeighbours(set, c) \in {2, 3}
        ELSE LiveNeighbours(set, c) = 3}

(***************************************************************************)
(* crate::lexicon: the Terms the pattern selector can hand to the Game.    *)
(***************************************************************************)
BlinkerTerm ==
    [cells |-> <<<<0, 0>>, <<0, 1>>, <<0, 2>>>>, width |-> 1, height |-> 3]

BlockTerm ==
    [cells |-> <<<<0, 0>>, <<1, 0>>, <<0, 1>>, <<1, 1>>>>,
     width |-> 2, height |-> 2]

CornerTerm ==
    [cells |-> <<<<1, 0>>, <<0, 0>>, <<0, 1>>, <<1, 0>>>>,
     width |-> 2, height |-> 2]

PairTerm ==
    [cells |-> <<<<1, 0>>, <<0, 0>>, <<1, 0>>>>, width |-> 2, height |-> 1]

Lexicon == {BlinkerTerm, BlockTerm, CornerTerm, PairTerm}

(***************************************************************************)
(* Helpers of Game::update.                                                *)
(***************************************************************************)
push_front(deque, x) == <<x>> \o deque

pop_back(deque) == SubSeq(deque, 1, Len(deque) - 1)

(* Variants of the rotation with a plausible slip: no eviction, and      *)
(* eviction at the front.                                                  *)
RotateHistoryNoEvict(gens, current, n) == push_front(gens, current)

RotateHistoryEvictsFront(gens, current, n) ==
    LET previous_gens_deque == push_front(gens, current)
    IN  IF Len(previous_gens_deque) > n
        THEN Tail(previous_gens_deque)
        ELSE previous_gens_deque

(* The rotation of previous_gens in Msg::NextTick. *)
RotateHistory(gens, current, n) ==
    LET previous_gens_deque == push_front(gens, current)
    IN  IF Len(previous_gens_deque) > n
        THEN pop_back(previous_gens_deque)
        ELSE previous_gens_deque

(* term.cells.iter().fold(CellSet::new(), make_cell_alive) *)
RECURSIVE FoldCells(_, _)
FoldCells(acc, list) ==
    IF list = <<>>
    THEN acc
    ELSE FoldCells(make_cell_alive(acc, Head(list)), Tail(list))

(* Dropping an Option<Interval>: the timer the handle stands for, if any,  *)
(* is cleared.                                                             *)
DropInterval(ts, handle) ==
    IF handle = None \/ \A i \in DOMAIN ts : ts[i] # handle[1]
    THEN ts
    ELSE LET k == CHOOSE i \in DOMAIN ts :
                    /\ ts[i] = handle[1]
                    /\ \A j \in 1..(i - 1) : ts[j] # handle[1]
         IN  SubSeq(ts, 1, k - 1) \o SubSeq(ts, k + 1, Len(ts))

(* millis as u32: the f64 arithmetic is exact for these operands, and the  *)
(* cast truncates toward zero and saturates at 0.                          *)
Millis(s) ==
    LET millis == ((50 - 500) \div 9) * s + 500
    IN  IF millis < 0 THEN 0 ELSE millis

(***************************************************************************)
(* Game::view: the properties handed to Board, the state of the buttons    *)
(* and the generation shown.                                               *)
(***************************************************************************)
Game ==
    [cells |-> cells, previous_gens |-> previous_gens, tick |-> tick,
     interval |-> interval, speed |-> speed, adjust_offset |-> adjust_offset,
     offset |-> offset, zoom |-> zoom, width |-> width, height |-> height]

(* Variant of view that hands the stored hint to Board on every render. *)
view_passes_hint(self) ==
    [running |-> self.interval # None,
     board |-> [cells |-> self.cells,
                previous_gens |-> self.previous_gens,
                offset |-> self.offset,
                zoom |-> self.zoom,
                width |-> self.width,
                height |-> self.height,
                adjust_offset |-> self.adjust_offset],
     generation |-> self.tick]

view(self) ==
    [running |-> self.interval # None,
     board |-> [cells |-> self.cells,
                previous_gens |-> self.previous_gens,
                offset |-> self.offset,
                zoom |-> self.zoom,
                width |-> self.width,
                height |-> self.height],
     generation |-> self.tick]

(* update returns true: the component is rendered again. *)
Rendered == rendered' = view(Game)'

(***************************************************************************)
(* Game::create                                                            *)
(***************************************************************************)
(* Variant of create that starts the counter at 1. *)
InitCountsFromOne ==
    /\ cells = CellSetNew
    /\ previous_gens = <<>>
    /\ tick = 1
    /\ interval = None
    /\ speed = InitialSpeed
    /\ adjust_offset = None
    /\ offset = <<0, 0>>
    /\ zoom = InitialZoom
    /\ width = InitialWidth
    /\ height = InitialHeight
    /\ num_previous \in 0..MaxNumPrevious
    /\ pending = <<>>
    /\ timers = <<>>
    /\ rendered = view(Game)

Init ==
    /\ cells = CellSetNew
    /\ previous_gens = <<>>
    /\ tick = 0
    /\ interval = None
    /\ speed = InitialSpeed
    /\ adjust_offset = None
    /\ offset = <<0, 0>>
    /\ zoom = InitialZoom
    /\ width = InitialWidth
    /\ height = InitialHeight
    /\ num_previous \in 0..MaxNumPrevious
    /\ pending = <<>>
    /\ timers = <<>>
    /\ rendered = view(Game)

(***************************************************************************)
(* Game::update, one definition per Msg variant.  Each leaves pending and  *)
(* num_previous to the action that delivers the message.                   *)
(***************************************************************************)
(* Variants of the NextTick handler with a plausible slip. *)
NextTickNoCount ==
    /\ tick < MaxTick
    /\ tick' = tick
    /\ adjust_offset' = None
    /\ previous_gens' = RotateHistory(previous_gens, cells, num_previous)
    /\ cells' = life_tick(cells)
    /\ UNCHANGED <<interval, timers, speed, offset, zoom, width, height>>

NextTickTwice ==
    /\ tick < MaxTick
    /\ tick' = tick + 1
    /\ adjust_offset' = None
    /\ previous_gens' = RotateHistory(previous_gens, cells, num_previous)
    /\ cells' = life_tick(life_tick(cells))
    /\ UNCHANGED <<interval, timers, speed, offset, zoom, width, height>>

NextTickStopsDriver ==
    /\ tick < MaxTick
    /\ tick' = tick + 1
    /\ adjust_offset' = None
    /\ previous_gens' = RotateHistory(previous_gens, cells, num_previous)
    /\ cells' = life_tick(cells)
    /\ interval' = None
    /\ timers' = DropInterval(timers, interval)
    /\ UNCHANGED <<speed, offset, zoom, width, height>>

NextTick ==
    /\ tick < MaxTick
    /\ tick' = tick + 1
    /\ adjust_offset' = None
    /\ previous_gens' = RotateHistory(previous_gens, cells, num_previous)
    /\ cells' = life_tick(cells)
    /\ UNCHANGED <<interval, timers, speed, offset, zoom, width, height>>

(* Variants of start_interval with a plausible slip: no immediate tick,    *)
(* and the old Interval kept alive next to the new one.                    *)
start_interval_no_tick(s) ==
    /\ pending' = pending
    /\ interval' = Some(Millis(s))
    /\ timers' = Append(DropInterval(timers, interval), Millis(s))

start_interval_leaks(s) ==
    /\ pending' = Append(pending, "NextTick")
    /\ interval' = Some(Millis(s))
    /\ timers' = Append(timers, Millis(s))

(* Game::start_interval: queues one NextTick and installs a new Interval;  *)
(* assigning self.interval drops, and so cancels, the old one.             *)
start_interval(s) ==
    /\ pending' = Append(pending, "NextTick")
    /\ interval' = Some(Millis(s))
    /\ timers' = Append(DropInterval(timers, interval), Millis(s))

Play ==
    /\ start_interval(speed)
    /\ UNCHANGED <<cells, previous_gens, tick, speed, adjust_offset,
                   offset, zoom, width, height>>

(* Variant of Pause that forgets the handle without clearing its timer. *)
PauseKeepsTimer ==
    /\ interval' = None
    /\ timers' = timers
    /\ UNCHANGED <<cells, previous_gens, tick, speed, adjust_offset,
                   offset, zoom, width, height, pending>>

Pause ==
    /\ interval' = None
    /\ timers' = DropInterval(timers, interval)
    /\ UNCHANGED <<cells, previous_gens, tick, speed, adjust_offset,
                   offset, zoom, width, height, pending>>

(* Variant of ChangeSpeed that starts the driver also when idle. *)
ChangeSpeedAlwaysStarts(s) ==
    /\ speed' = s
    /\ start_interval(s)
    /\ UNCHANGED <<cells, previous_gens, tick, adjust_offset,
                   offset, zoom, width, height>>

ChangeSpeed(s) ==
    /\ speed' = s
    /\ IF interval # None
       THEN start_interval(s)
       ELSE UNCHANGED <<interval, timers, pending>>
    /\ UNCHANGED <<cells, previous_gens, tick, adjust_offset,
                   offset, zoom, width, height>>

(* Variants of the ApplyPattern handler with a plausible slip. *)
ApplyPatternKeepsHistory(term) ==
    /\ cells' = FoldCells(CellSetNew, term.cells)
    /\ tick' = 0
    /\ previous_gens' = previous_gens
    /\ adjust_offset' = Some(<<term.width, term.height>>)
    /\ UNCHANGED <<interval, timers, speed, offset, zoom, width, height,
                   pending>>

ApplyPatternMerges(term) ==
    /\ cells' = FoldCells(cells, term.cells)
    /\ tick' = 0
    /\ previous_gens' = <<>>
    /\ adjust_offset' = Some(<<term.width, term.height>>)
    /\ UNCHANGED <<interval, timers, speed, offset, zoom, width, height,
                   pending>>

ApplyPattern(term) ==
    /\ cells' = FoldCells(CellSetNew, term.cells)
    /\ tick' = 0
    /\ previous_gens' = <<>>
    /\ adjust_offset' = Some(<<term.width, term.height>>)
    /\ UNCHANGED <<interval, timers, speed, offset, zoom, width, height,
                   pending>>

ChangeZoomAndOffset(z, o) ==
    /\ zoom' = IF z # None THEN z[1] ELSE zoom
    /\ offset' = IF o # None THEN o[1] ELSE offset
    /\ UNCHANGED <<cells, previous_gens, tick, interval, timers, speed,
                   adjust_offset, width, height, pending>>

Resize(w, h) ==
    /\ width' = w
    /\ height' = h
    /\ UNCHANGED <<cells, previous_gens, tick, interval, timers, speed,
                   adjust_offset, offset, zoom, pending>>

(***************************************************************************)
(* Delivery of messages.  The component scheduler handles the messages an  *)
(* update queued before control returns to the event loop, so an event of  *)
(* the browser (a click, a timer firing, a resize) finds pending empty.    *)
(***************************************************************************)
Quiescent == pending = <<>>

(* The NextTick that start_interval sent through the link. *)
QueuedTick ==
    /\ pending # <<>>
    /\ Head(pending) = "NextTick"
    /\ NextTick
    /\ pending' = Tail(pending)
    /\ UNCHANGED num_previous
    /\ Rendered

(* Variant in which the callback of the timer never reaches update. *)
IntervalFireLost ==
    /\ Quiescent
    /\ timers # <<>>
    /\ UNCHANGED vars

(* A browser timer that is set fires and runs the Interval's callback. *)
IntervalFire ==
    /\ Quiescent
    /\ timers # <<>>
    /\ NextTick
    /\ UNCHANGED <<pending, num_previous>>
    /\ Rendered

(* The Tick button, disabled while running. *)
TickButton ==
    /\ Quiescent
    /\ interval = None
    /\ NextTick
    /\ UNCHANGED <<pending, num_previous>>
    /\ Rendered

(* The Play/Pause button sends Play when not running.  The guards on tick *)
(* here and in SpeedInput keep a queued NextTick inside the bound.        *)
PlayButton ==
    /\ Quiescent
    /\ interval = None
    /\ tick < MaxTick
    /\ Play
    /\ UNCHANGED num_previous
    /\ Rendered

PauseButton ==
    /\ Quiescent
    /\ interval # None
    /\ Pause
    /\ UNCHANGED num_previous
    /\ Rendered

SpeedInput ==
    /\ Quiescent
    /\ interval # None => tick < MaxTick
    /\ \E s \in Speeds : ChangeSpeed(s)
    /\ UNCHANGED num_previous
    /\ Rendered

PatternSelected ==
    /\ Quiescent
    /\ \E term \in Lexicon : ApplyPattern(term)
    /\ UNCHANGED num_previous
    /\ Rendered

BoardZoomOrPan ==
    /\ Quiescent
    /\ \E z \in {None} \cup {Some(v) : v \in Zooms},
          o \in {None} \cup {Some(v) : v \in Offsets} :
            ChangeZoomAndOffset(z, o)
    /\ UNCHANGED num_previous
    /\ Rendered

WindowResize ==
    /\ Quiescent
    /\ \E size \in WindowSizes : Resize(size[1], size[2])
    /\ UNCHANGED num_previous
    /\ Rendered

(* The settings provider replaces the Settings in the context. *)
SettingsChanged ==
    /\ Quiescent
    /\ \E n \in 0..MaxNumPrevious : num_previous' = n
    /\ num_previous' # num_previous
    /\ UNCHANGED <<cells, previous_gens, tick, interval, timers, speed,
                   adjust_offset, offset, zoom, width, height, pending,
                   rendered>>

Controller ==
    \/ QueuedTick
    \/ IntervalFire
    \/ TickButton
    \/ PlayButton
    \/ PauseButton
    \/ SpeedInput
    \/ PatternSelected
    \/ BoardZoomOrPan
    \/ WindowResize

Next ==
    \/ Controller
    \/ SettingsChanged

Spec == Init /\ [][Next]_vars

(* The controller under a configuration that is never replaced. *)
SpecFixed == Init /\ [][Controller]_vars

Min(a, b) == IF a < b THEN a ELSE b

(***************************************************************************)
(* C1: with num_previous held constant at n, the length of the History     *)
(* Ring equals min(Generation Counter, n) in every reachable state.        *)
(***************************************************************************)
HistoryLengthIsMin == Len(previous_gens) = Min(tick, num_previous)

HistoryFull ==
    /\ num_previous >= 2
    /\ tick > num_previous
    /\ Len(previous_gens) = num_previous

(***************************************************************************)
(* C2: every processed tick leaves the History Ring with at most           *)
(* num_previous entries, also right after num_previous has shrunk.         *)
(***************************************************************************)
ShrinkTrimsOnNextRecord ==
    [][NextTick => Len(previous_gens') <= num_previous']_vars

(***************************************************************************)
(* C3: a pattern apply leaves the Generation Counter at 0 and the History  *)
(* Ring empty, and keeps the Idle/Running status.                          *)
(***************************************************************************)
ApplyResetsCounterAndHistory ==
    [][\A term \in Lexicon :
         ApplyPattern(term) =>
            /\ tick' = 0
            /\ previous_gens' = <<>>
            /\ (interval' = None) <=> (interval = None)]_vars

AppliedMidRun ==
    /\ interval # None
    /\ tick = 0
    /\ previous_gens = <<>>
    /\ adjust_offset # None
    /\ cells # {}

(***************************************************************************)
(* C4: after a pattern apply the current CellSet is exactly the set of the *)
(* coordinates the template lists, whatever it was before.                 *)
(***************************************************************************)
TermCoordinates(term) == {term.cells[i] : i \in DOMAIN term.cells}

ApplyReplacesCells ==
    [][\A term \in Lexicon :
         ApplyPattern(term) => cells' = TermCoordinates(term)]_vars

AppliedWithDuplicates ==
    /\ adjust_offset = Some(<<CornerTerm.width, CornerTerm.height>>)
    /\ cells = TermCoordinates(CornerTerm)
    /\ Cardinality(cells) < Len(CornerTerm.cells)
    /\ tick = 0

(***************************************************************************)
(* C5: every processed tick request, from the queued tick of Play, from    *)
(* the periodic driver or from the Tick button, increments the Generation  *)
(* Counter by exactly 1, and only a tick or a pattern apply changes it.    *)
(***************************************************************************)
TickCountsByOne ==
    [][/\ (QueuedTick \/ IntervalFire \/ TickButton) => tick' = tick + 1
       /\ tick' # tick =>
            \/ NextTick /\ tick' = tick + 1
            \/ \E term \in Lexicon : ApplyPattern(term) /\ tick' = 0]_vars

CountedWhileRunning ==
    /\ tick >= 3
    /\ interval # None
    /\ pending = <<>>

(***************************************************************************)
(* C6: one tick with current CellSet C, History Ring H and num_previous n  *)
(* leaves the History Ring as <<C>> \o H, without its last element iff its *)
(* length exceeds n, and the current CellSet as tick(C).                   *)
(***************************************************************************)
TickRecordsPrevious ==
    [][NextTick =>
         /\ previous_gens' =
              IF Len(previous_gens) + 1 > num_previous
              THEN SubSeq(<<cells>> \o previous_gens, 1, Len(previous_gens))
              ELSE <<cells>> \o previous_gens
         /\ cells' = life_tick(cells)]_vars

RecordedWithEviction ==
    /\ num_previous = 2
    /\ tick >= 3
    /\ Len(previous_gens) = 2
    /\ previous_gens[1] # cells
    /\ previous_gens[2] # previous_gens[1]
    /\ life_tick(previous_gens[1]) = cells

(***************************************************************************)
(* The transition engine on every CellSet of a small grid: the state right *)
(* after a pattern apply of a term that lists any subset of the grid, and  *)
(* then ticks only.                                                        *)
(***************************************************************************)
GridCells == (0..(GridWidth - 1)) \X (0..(GridHeight - 1))

InitLife ==
    /\ cells \in SUBSET GridCells
    /\ previous_gens = <<>>
    /\ tick = 0
    /\ interval = None
    /\ speed = InitialSpeed
    /\ adjust_offset = Some(<<GridWidth, GridHeight>>)
    /\ offset = <<0, 0>>
    /\ zoom = InitialZoom
    /\ width = InitialWidth
    /\ height = InitialHeight
    /\ num_previous = 1
    /\ pending = <<>>
    /\ timers = <<>>
    /\ rendered = view(Game)

SpecLife == InitLife /\ [][TickButton]_vars

Lowest(S) == CHOOSE m \in S : \A k \in S : m <= k

Highest(S) == CHOOSE m \in S : \A k \in S : m >= k

(* Every coordinate within Chebyshev distance 2 of the bounding box. *)
Hull(set) ==
    IF set = {}
    THEN (-2..2) \X (-2..2)
    ELSE LET xs == {c[1] : c \in set}
             ys == {c[2] : c \in set}
         IN  ((Lowest(xs) - 2)..(Highest(xs) + 2))
                \X ((Lowest(ys) - 2)..(Highest(ys) + 2))

MooreCount(set, c) ==
    Cardinality({d \in set : /\ d # c
                              /\ d[1] - c[1] \in {-1, 0, 1}
                              /\ d[2] - c[2] \in {-1, 0, 1}})

(***************************************************************************)
(* C7: a tick yields exactly the live cells with 2 or 3 live Moore         *)
(* neighbours and the dead cells with exactly 3, over the whole            *)
(* surrounding of the CellSet and not only over the candidates.            *)
(***************************************************************************)
TickIsConwayRule ==
    [][NextTick =>
         cells' = {c \in Hull(cells) :
                     \/ c \in cells /\ MooreCount(cells, c) \in {2, 3}
                     \/ c \notin cells /\ MooreCount(cells, c) = 3}]_vars

BornOutsideGrid ==
    /\ tick = 1
    /\ \E c \in cells : c[1] < 0 \/ c[2] < 0
    /\ \E c \in cells : c \in GridCells

Translate(set, d) == {<<c[1] + d[1], c[2] + d[2]>> : c \in set}

Shifts == (-MaxShift..MaxShift) \X (-MaxShift..MaxShift)

(***************************************************************************)
(* C8: translation invariance: tick(translate(S, d)) equals                *)
(* translate(tick(S), d) for every offset d, negative coordinates included.*)
(***************************************************************************)
TickCommutesWithTranslate ==
    \A d \in Shifts :
        life_tick(Translate(cells, d)) = Translate(life_tick(cells), d)

TranslatedToNegative ==
    /\ tick >= 1
    /\ cells # {}
    /\ life_tick(cells) # {}
    /\ life_tick(cells) # cells
    /\ \E c \in Translate(cells, <<-MaxShift, -MaxShift>>) : c[1] < 0

BlinkerVertical == {<<0, 0>>, <<0, 1>>, <<0, 2>>}

BlinkerHorizontal == {<<-1, 1>>, <<0, 1>>, <<1, 1>>}

(***************************************************************************)
(* C9: applying the blinker <<(0,0),(0,1),(0,2)>> and ticking once gives   *)
(* {(-1,1),(0,1),(1,1)}; a second tick gives the vertical triple again.    *)
(***************************************************************************)
BlinkerOscillates ==
    [][/\ ApplyPattern(BlinkerTerm) => cells' = BlinkerVertical
       /\ NextTick /\ cells = BlinkerVertical => cells' = BlinkerHorizontal
       /\ NextTick /\ cells = BlinkerHorizontal => cells' = BlinkerVertical]_vars

BlinkerBackAfterTwoTicks ==
    /\ tick = 2
    /\ cells = BlinkerVertical
    /\ Len(previous_gens) = 2
    /\ previous_gens[1] = BlinkerHorizontal
    /\ previous_gens[2] = BlinkerVertical

(***************************************************************************)
(* C10: the period of the periodic driver is (50 - 500) / 9 * speed + 500  *)
(* milliseconds, which is 500 at speed 1 and 50 at speed 10.               *)
(***************************************************************************)
PeriodInterpolatesSpeed ==
    interval # None =>
        /\ interval[1] = ((50 - 500) \div 9) * speed + 500
        /\ speed = MinSpeed => interval[1] = 500
        /\ speed = MaxSpeed => interval[1] = 50

(***************************************************************************)
(* C11: a play request processed in Idle moves the controller to Running   *)
(* with the periodic driver set at the period of the current speed, and    *)
(* requests exactly one tick, which is handled before any other event.     *)
(***************************************************************************)
PlayStartsDriverAndOneTick ==
    [][/\ (interval = None /\ Play) =>
            /\ interval' = Some(Millis(speed))
            /\ timers' = <<Millis(speed)>>
            /\ pending' = <<"NextTick">>
       /\ pending # <<>> => (QueuedTick /\ pending' = <<>>)]_vars

JustPlayed ==
    /\ interval # None
    /\ rendered.running
    /\ timers = <<Millis(speed)>>
    /\ pending = <<"NextTick">>
    /\ tick = 0

(***************************************************************************)
(* C12: a pause request moves the controller to Idle with no driver and no *)
(* tick queued, leaves the current CellSet, the History Ring and the       *)
(* Generation Counter unchanged, and while Idle a generation advances only *)
(* by an explicit single-tick request.                                     *)
(***************************************************************************)
PauseStopsTicks ==
    [][/\ Pause =>
            /\ interval' = None
            /\ timers' = <<>>
            /\ pending' = <<>>
            /\ UNCHANGED <<cells, previous_gens, tick>>
       /\ (interval = None /\ tick' # tick /\ tick' # 0) => TickButton]_vars

PausedAfterRunning ==
    /\ interval = None
    /\ ~rendered.running
    /\ timers = <<>>
    /\ pending = <<>>
    /\ tick >= 2
    /\ speed # InitialSpeed
    /\ previous_gens # <<>>

(***************************************************************************)
(* C13: a processed NextTick, in Idle or in Running, advances exactly one  *)
(* generation and leaves the Idle/Running status, the periodic driver and  *)
(* the speed unchanged.                                                    *)
(***************************************************************************)
TickKeepsStatus ==
    [][NextTick =>
         /\ tick' = tick + 1
         /\ cells' = life_tick(cells)
         /\ interval' = interval
         /\ timers' = timers
         /\ speed' = speed]_vars

TickedWhileRunning ==
    /\ interval # None
    /\ timers # <<>>
    /\ pending = <<>>
    /\ tick = 2
    /\ cells # {}
    /\ rendered.generation = 2

(***************************************************************************)
(* C14: a speed change while Running keeps the controller Running with the *)
(* driver replaced by one at the period of the new speed; while Idle it    *)
(* stores the speed and leaves no driver; neither resets the current       *)
(* CellSet, the History Ring or the Generation Counter.                    *)
(***************************************************************************)
SpeedChangeKeepsSimulation ==
    [][\A s \in Speeds :
         ChangeSpeed(s) =>
            /\ speed' = s
            /\ UNCHANGED <<cells, previous_gens, tick>>
            /\ IF interval # None
               THEN /\ interval' = Some(Millis(s))
                    /\ timers' = <<Millis(s)>>
               ELSE /\ interval' = None
                    /\ timers' = <<>>
                    /\ pending' = <<>>]_vars

SpeedChangedWhileRunning ==
    /\ interval = Some(Millis(speed))
    /\ speed # InitialSpeed
    /\ tick >= 2
    /\ previous_gens # <<>>
    /\ pending = <<"NextTick">>

(***************************************************************************)
(* C15: the state after construction is Idle with no periodic driver,      *)
(* Generation Counter 0, empty current CellSet, empty History Ring and no  *)
(* view-reframing hint.                                                    *)
(***************************************************************************)
CreatedIdleAndEmpty ==
    /\ /\ interval = None
       /\ timers = <<>>
       /\ pending = <<>>
       /\ tick = 0
       /\ cells = {}
       /\ previous_gens = <<>>
       /\ adjust_offset = None
    /\ [][TRUE]_vars

FreshlyCreated ==
    /\ tick = 0
    /\ cells = {}
    /\ previous_gens = <<>>
    /\ adjust_offset = None
    /\ ~rendered.running
    /\ speed = InitialSpeed
    /\ zoom = InitialZoom
    /\ width = InitialWidth
    /\ height = InitialHeight

(***************************************************************************)
(* C16: a speed change while Running requests no tick of its own: the only *)
(* tick requests after it are firings of the rescheduled driver and        *)
(* explicit single-tick requests.                                          *)
(***************************************************************************)
SpeedChangeRequestsNoTick ==
    [][\A s \in Speeds :
         (interval # None /\ ChangeSpeed(s)) => pending' = pending]_vars

(* The hint Board receives in a render, None when it receives none. *)
HintGiven(r) ==
    IF "adjust_offset" \in DOMAIN r.board
    THEN r.board.adjust_offset
    ELSE None

SpecLive == Spec /\ WF_vars(IntervalFire) /\ WF_vars(QueuedTick)

(***************************************************************************)
(* C18: no reachable state is terminal, and a controller that stays        *)
(* Running below the bound of the model processes ticks again and again:   *)
(* the Generation Counter changes infinitely often.                        *)
(***************************************************************************)
RunningKeepsTicking ==
    /\ [](ENABLED <<Next>>_vars)
    /\ <>[](interval # None /\ tick < MaxTick) => []<><<tick' # tick>>_vars

RanToTheBound ==
    /\ interval # None
    /\ timers # <<>>
    /\ pending = <<>>
    /\ tick = MaxTick

(***************************************************************************)
(* C19: the History Ring is a chain of consecutive generations that ends   *)
(* at the current one: tick(ring[1]) is the current CellSet and            *)
(* tick(ring[i+1]) = ring[i] for every adjacent pair.                      *)
(***************************************************************************)
HistoryIsChain ==
    /\ previous_gens # <<>> => life_tick(previous_gens[1]) = cells
    /\ \A i \in 1..(Len(previous_gens) - 1) :
         life_tick(previous_gens[i + 1]) = previous_gens[i]

ChainOfThree ==
    /\ Len(previous_gens) = 3
    /\ previous_gens[1] # previous_gens[2]
    /\ previous_gens[2] # previous_gens[3]
    /\ cells # {}
    /\ adjust_offset = None

(***************************************************************************)
(* C20: at most one periodic driver is set at any time, it is the one the  *)
(* controller holds, and the controller is Running exactly when one is set.*)
(***************************************************************************)
AtMostOneDriver ==
    /\ Len(timers) <= 1
    /\ timers # <<>> <=> interval # None
    /\ interval # None => timers = <<interval[1]>>
    /\ rendered.running <=> interval # None

DriverReplaced ==
    /\ timers = <<Millis(speed)>>
    /\ speed = MaxSpeed
    /\ pending = <<>>
    /\ tick >= 1
    /\ rendered.running

====
